---- MODULE Spec2Model ----
(***************************************************************************)
(* A model of dashboard.py: the module-level pipeline (load, ensure        *)
(* columns, numeric coercion, filter/derive, KPIs, grouped sums, figures)  *)
(* followed by the routing callback change_page.                           *)
(*                                                                         *)
(* A cell of a table is a record [t, v, s]: a number (t = "num", value v), *)
(* a text (t = "str", characters s) or pandas' missing value NaN           *)
(* (t = "nan").  A table is [cols, rows]: the set of column names and the  *)
(* sequence of rows, each row a function from cols to cells.               *)
(***************************************************************************)
EXTENDS Integers, Sequences, FiniteSets, TLC

VARIABLES
    file,             \* the source file Business_sales.csv, as found on disk
    pc,               \* position in the module-level script
    df,               \* the data frame df
    df_clean,         \* the filtered frame df_clean
    total_revenue, total_units, avg_price, unique_products,
    by_position, promo, by_season, by_material, by_origin, top10,
    fig_season, fig_price_vs, fig_top10, fig_material, fig_position,
    fig_promo, fig_origin,
    path,             \* the pathname of the last request handled by change_page
    page,             \* what change_page returned for it
    nviews            \* number of requests handled so far

data == <<df, df_clean, total_revenue, total_units, avg_price, unique_products,
          by_position, promo, by_season, by_material, by_origin, top10,
          fig_season, fig_price_vs, fig_top10, fig_material, fig_position,
          fig_promo, fig_origin>>

vars == <<file, pc, data, path, page, nviews>>

(***************************************************************************)
(* Bounds of the model.                                                    *)
(***************************************************************************)
MaxRows == 2

MaxViews == 2

(***************************************************************************)
(* Cells, scalars and tables.                                              *)
(***************************************************************************)
Num(n) == [t |-> "num", v |-> n, s |-> <<>>]

Str(chars) == [t |-> "str", v |-> 0, s |-> chars]

NaN == [t |-> "nan", v |-> 0, s |-> <<>>]

\* a scalar result: the rational num/den, or the float NaN
Scalar(n, d) == [t |-> "num", num |-> n, den |-> d]

NaNScalar == [t |-> "nan", num |-> 0, den |-> 1]

\* pd.DataFrame(): no columns, no rows
EmptyTable == [cols |-> {}, rows |-> <<>>]

\* DataFrame.empty: some axis has length 0
empty(t) == t.cols = {} \/ t.rows = <<>>

CSV_NAME == "Business_sales.csv"

expected_cols == {"Product ID", "Product Position", "Promotion", "Product Category",
                  "Seasonal", "Sales Volume", "brand", "url", "name", "description",
                  "price", "currency", "terms", "section", "season", "material", "origin"}

(***************************************************************************)
(* Text: characters in ASCII order, comparison and numeric parsing.        *)
(***************************************************************************)
Alphabet == <<"-", "0", "1", "2", "3", "4", "5", "6", "7", "8", "9", "A", "B", "x">>

CharRank(c) == CHOOSE i \in 1..Len(Alphabet) : Alphabet[i] = c

DigitChars == {"0", "1", "2", "3", "4", "5", "6", "7", "8", "9"}

DigitVal(c) == CharRank(c) - 2

RECURSIVE LexLess(_, _)
LexLess(a, b) ==
    IF b = <<>> THEN FALSE
    ELSE IF a = <<>> THEN TRUE
    ELSE IF Head(a) # Head(b) THEN CharRank(Head(a)) < CharRank(Head(b))
    ELSE LexLess(Tail(a), Tail(b))

RECURSIVE DigitsValue(_, _)
DigitsValue(chars, acc) ==
    IF chars = <<>> THEN acc
    ELSE DigitsValue(Tail(chars), 10 * acc + DigitVal(Head(chars)))

AllDigits(chars) == chars # <<>> /\ \A i \in 1..Len(chars) : chars[i] \in DigitChars

\* the parse of one text by pd.to_numeric(errors="coerce"): NaN when it fails
ParseNumber(chars) ==
    IF AllDigits(chars) THEN Num(DigitsValue(chars, 0))
    ELSE IF chars # <<>> /\ Head(chars) = "-" /\ AllDigits(Tail(chars))
         THEN Num(0 - DigitsValue(Tail(chars), 0))
    ELSE NaN

\* pd.to_numeric(..., errors="coerce") on one cell
to_numeric(cell) ==
    IF cell.t = "num" THEN cell
    ELSE IF cell.t = "str" THEN ParseNumber(cell.s)
    ELSE NaN

\* a variant of fillna0 that leaves the missing value in place
fillna_skipped(cell) == cell

\* Series.fillna(0) on one cell
fillna0(cell) == IF cell.t = "nan" THEN Num(0) ELSE cell

(***************************************************************************)
(* The source file: absent, present but not parseable by pd.read_csv (a    *)
(* zero-byte file, a row with more fields than the header, a directory),   *)
(* or present and holding a table.  read_csv reads an empty field as NaN,  *)
(* so a source cell is never the empty text.                               *)
(***************************************************************************)
AbsentFile == [kind |-> "absent", table |-> EmptyTable]

UnparseableFile == [kind |-> "unparseable", table |-> EmptyTable]

TableFile(t) == [kind |-> "table", table |-> t]

\* the tables over columns `cols` with at most MaxRows rows, the cells of column c
\* drawn from cells[c]
SourceTables(cols, cells) ==
    LET RowSet == {r \in [cols -> UNION {cells[c] : c \in cols}] :
                      \A c \in cols : r[c] \in cells[c]}
    IN  {[cols |-> cols, rows |-> rs] :
            rs \in UNION {[1..n -> RowSet] : n \in 0..MaxRows}}

Files(colsets, cells) ==
    {AbsentFile, UnparseableFile}
        \cup {TableFile(t) : t \in UNION {SourceTables(cols, cells) : cols \in colsets}}

\* inputs of the main specification
VariedCols == {"Sales Volume", "price", "season", "name"}

MainCells ==
    [c \in VariedCols |->
        CASE c = "Sales Volume" -> {Num(1), Num(2), Str(<<"x">>)}
          [] c = "price"        -> {Num(3)}
          [] c = "season"       -> {Str(<<"A">>), Str(<<"B">>), NaN}
          [] OTHER              -> {Str(<<"A">>), Str(<<"B">>)}]

\* inputs of the specification that exercises the numeric columns
NumericCols == {"Sales Volume", "price"}

NumericCells ==
    [c \in NumericCols |->
        {Num(2), Str(<<"1", "2">>), Str(<<"-", "3">>), Str(<<"1", "x">>), NaN}]

(***************************************************************************)
(* The module-level script, lines 13-81.                                   *)
(***************************************************************************)
\* os.path.exists(CSV_NAME)
exists(f) == f.kind # "absent"

\* lines 25-27: a column the frame lacks is added, holding "" in every row
ensure_columns(t) ==
    LET cols == t.cols \cup expected_cols
    IN  [cols |-> cols,
         rows |-> [i \in 1..Len(t.rows) |->
                    [c \in cols |-> IF c \in t.cols THEN t.rows[i][c] ELSE Str(<<>>)]]]

\* lines 29-30: df[col] = pd.to_numeric(df[col], errors="coerce").fillna(0)
coerce_column(t, col) ==
    [t EXCEPT !.rows = [i \in 1..Len(t.rows) |->
                          [t.rows[i] EXCEPT ![col] = fillna0(to_numeric(t.rows[i][col]))]]]

\* a variant of keep that joins the two comparisons with | instead of &
keep_either(r) == r["Sales Volume"].v > 0 \/ r["price"].v > 0

\* line 32: the boolean mask (df["Sales Volume"] > 0) & (df["price"] > 0)
keep(r) == r["Sales Volume"].v > 0 /\ r["price"].v > 0

\* line 33: the Revenue of one row
revenue(r) == Num(r["Sales Volume"].v * r["price"].v)

\* lines 32-33
filter_derive(t) ==
    LET kept == SelectSeq(t.rows, keep)
        cols == t.cols \cup {"Revenue"}
    IN  [cols |-> cols,
         rows |-> [i \in 1..Len(kept) |->
                    [c \in cols |-> IF c = "Revenue" THEN revenue(kept[i]) ELSE kept[i][c]]]]

RECURSIVE SumCol(_, _)
SumCol(rows, col) ==
    IF rows = <<>> THEN 0 ELSE rows[1][col].v + SumCol(Tail(rows), col)

\* Series.sum(): 0 for no rows
sum(t, col) == Scalar(SumCol(t.rows, col), 1)

\* Series.mean(): the sum over the count, NaN for no rows
mean(t, col) ==
    IF Len(t.rows) = 0 THEN NaNScalar ELSE Scalar(SumCol(t.rows, col), Len(t.rows))

\* Series.nunique(): the number of distinct values, NaN not counted
nunique(t, col) == Cardinality({t.rows[i][col] : i \in 1..Len(t.rows)} \ {NaN})

(***************************************************************************)
(* Grouped sums, lines 46-56.                                              *)
(***************************************************************************)
\* the group keys of a column in groupby's order: distinct, NaN dropped, ascending
RECURSIVE SortedKeys(_)
SortedKeys(keys) ==
    IF keys = {} THEN <<>>
    ELSE LET k == CHOOSE x \in keys : \A y \in keys \ {x} : LexLess(x.s, y.s)
         IN  <<k>> \o SortedKeys(keys \ {k})

group_keys(t, col) == SortedKeys({t.rows[i][col] : i \in 1..Len(t.rows)} \ {NaN})

\* df.groupby(col, as_index=False)["Sales Volume"].sum()
groupby_sum(t, col) ==
    LET keys == group_keys(t, col)
        members(k) == SelectSeq(t.rows, LAMBDA r : r[col] = k)
    IN  [cols |-> {col, "Sales Volume"},
         rows |-> [i \in 1..Len(keys) |->
                    [c \in {col, "Sales Volume"} |->
                        IF c = col THEN keys[i]
                        ELSE Num(SumCol(members(keys[i]), "Sales Volume"))]]]

RemoveAt(rows, i) == SubSeq(rows, 1, i - 1) \o SubSeq(rows, i + 1, Len(rows))

\* the rows in non-increasing order of column `by`, equal values in their given order
\* (sort_values' default sort is an insertion sort, which is stable, below 17 rows)
RECURSIVE SortDescending(_, _)
SortDescending(rows, by) ==
    IF rows = <<>> THEN <<>>
    ELSE LET i == CHOOSE j \in 1..Len(rows) :
                    /\ \A k \in 1..Len(rows) : rows[k][by].v <= rows[j][by].v
                    /\ \A k \in 1..(j - 1) : rows[k][by].v < rows[j][by].v
         IN  <<rows[i]>> \o SortDescending(RemoveAt(rows, i), by)

\* a variant of sort_values that leaves the rows in groupby's key order
sort_skipped(t) == t

\* DataFrame.sort_values("Sales Volume", ascending=False)
sort_values(t) == [t EXCEPT !.rows = SortDescending(t.rows, "Sales Volume")]

\* a variant of head whose slice ends one row early when n exceeds the length
head_exclusive(t, n) ==
    [t EXCEPT !.rows = SubSeq(t.rows, 1, IF n < Len(t.rows) THEN n ELSE Len(t.rows) - 1)]

\* DataFrame.head(n)
head(t, n) == [t EXCEPT !.rows = SubSeq(t.rows, 1, IF n < Len(t.rows) THEN n ELSE Len(t.rows))]

\* lines 46-49
g(t, col) ==
    IF col \notin t.cols \/ empty(t) THEN EmptyTable
    ELSE sort_values(groupby_sum(t, col))

\* the row count of top10, line 56
TopN == 10

\* line 56
top_products(t) == head(sort_values(groupby_sum(t, "name")), TopN)

(***************************************************************************)
(* Figures, lines 61-81: a figure is the descriptor handed to plotly.      *)
(***************************************************************************)
\* go.Figure()
EmptyFigure == [kind |-> "empty", orientation |-> "", rows |-> <<>>,
                x |-> "", y |-> "", title |-> ""]

\* lines 61-66
make_bar(t, x, y, title) ==
    IF empty(t) THEN EmptyFigure
    ELSE [kind |-> "bar", orientation |-> "v", rows |-> t.rows,
          x |-> x, y |-> y, title |-> title]

\* lines 68-73
make_hbar(t, x, y, title) ==
    IF empty(t) THEN EmptyFigure
    ELSE [kind |-> "bar", orientation |-> "h", rows |-> t.rows,
          x |-> x, y |-> y, title |-> title]

\* line 76
make_scatter(t) ==
    IF ~empty(t)
    THEN [kind |-> "scatter", orientation |-> "", rows |-> t.rows,
          x |-> "price", y |-> "Sales Volume", title |-> "Price vs Sales Volume"]
    ELSE EmptyFigure

(***************************************************************************)
(* Pages and routing, lines 112-180 and 205-214.  A page is the content    *)
(* returned to the browser; Raised stands for a callback that raised.      *)
(***************************************************************************)
View(name, kpis, charts, items, recs) ==
    [name |-> name, kpis |-> kpis, charts |-> charts, items |-> items, recs |-> recs]

Raised == View("raised", <<>>, <<>>, <<>>, <<>>)

NoPage == View("", <<>>, <<>>, <<>>, <<>>)

\* an f-string field: the value and its format specification
Fmt(prefix, value, format) == [prefix |-> prefix, value |-> value, format |-> format]

\* int(x) of a finite scalar
int(x) == Scalar(x.num \div x.den, 1)

\* lines 112-146; int() raises on NaN
page_overview ==
    IF total_units.t = "nan" THEN Raised
    ELSE View("overview",
              << Fmt("$", total_revenue, ",.2f"),
                 Fmt("", int(total_units), ","),
                 Fmt("$", avg_price, ",.2f"),
                 Fmt("", Scalar(unique_products, 1), "") >>,
              <<fig_position, fig_promo, fig_origin>>, <<>>, <<>>)

\* lines 148-152
page_details == View("details", <<>>, <<fig_top10, fig_material>>, <<>>, <<>>)

\* lines 154-158
page_advanced == View("advanced", <<>>, <<fig_season, fig_price_vs>>, <<>>, <<>>)

\* one entry of `insights`, lines 162-164: "" (left out at line 176) for an empty table
insight(t, col, text) ==
    IF ~empty(t) THEN <<[text |-> text, value |-> t.rows[1][col]]>> ELSE <<>>

\* lines 160-180
page_insights ==
    View("insights", <<>>, <<>>,
         insight(by_position, "Product Position", "Most sales come from the position")
            \o insight(by_season, "season", "Top season")
            \o insight(by_origin, "origin", "Strongest region"),
         << "Increase placement in high-performing product positions.",
            "Review pricing strategy for high-volume items.",
            "Expand sourcing where performance is high.",
            "Boost seasonal campaigns based on strongest seasons." >>)

\* a variant of change_page that matches /details as a prefix
change_page_prefix(p) ==
    IF p \in {"/details", "/details/"} THEN page_details
    ELSE IF p = "/advanced" THEN page_advanced
    ELSE IF p = "/insights" THEN page_insights
    ELSE page_overview

\* lines 207-214
change_page(p) ==
    IF p = "/details" THEN page_details
    ELSE IF p = "/advanced" THEN page_advanced
    ELSE IF p = "/insights" THEN page_insights
    ELSE page_overview

\* Python's None, the pathname of a request without one: equal to no str
NoneValue == "<None>"

\* the pathnames requested
Paths == {"/", "", "/details", "/advanced", "/insights", "/details/", NoneValue}

\* the value of `path` before the first request
NoRequest == "<no request>"

(***************************************************************************)
(* Actions: the steps of the script in order, then the callback.           *)
(***************************************************************************)
\* lines 13-16; an exception of read_csv is not caught and ends the process
Load ==
    /\ pc = "load"
    /\ IF ~exists(file) THEN df' = EmptyTable /\ pc' = "ensure_cols"
       ELSE IF file.kind = "table" THEN df' = file.table /\ pc' = "ensure_cols"
       ELSE df' = df /\ pc' = "crashed"
    /\ UNCHANGED <<file, df_clean, total_revenue, total_units, avg_price,
                   unique_products, by_position, promo, by_season, by_material,
                   by_origin, top10, fig_season, fig_price_vs, fig_top10,
                   fig_material, fig_position, fig_promo, fig_origin,
                   path, page, nviews>>

\* lines 25-27
EnsureColumns ==
    /\ pc = "ensure_cols"
    /\ df' = ensure_columns(df)
    /\ pc' = "coerce"
    /\ UNCHANGED <<file, df_clean, total_revenue, total_units, avg_price,
                   unique_products, by_position, promo, by_season, by_material,
                   by_origin, top10, fig_season, fig_price_vs, fig_top10,
                   fig_material, fig_position, fig_promo, fig_origin,
                   path, page, nviews>>

\* lines 29-30
Coerce ==
    /\ pc = "coerce"
    /\ df' = coerce_column(coerce_column(df, "Sales Volume"), "price")
    /\ pc' = "filter"
    /\ UNCHANGED <<file, df_clean, total_revenue, total_units, avg_price,
                   unique_products, by_position, promo, by_season, by_material,
                   by_origin, top10, fig_season, fig_price_vs, fig_top10,
                   fig_material, fig_position, fig_promo, fig_origin,
                   path, page, nviews>>

\* lines 32-33
FilterDerive ==
    /\ pc = "filter"
    /\ df_clean' = filter_derive(df)
    /\ pc' = "kpis"
    /\ UNCHANGED <<file, df, total_revenue, total_units, avg_price,
                   unique_products, by_position, promo, by_season, by_material,
                   by_origin, top10, fig_season, fig_price_vs, fig_top10,
                   fig_material, fig_position, fig_promo, fig_origin,
                   path, page, nviews>>

\* lines 38-41
KPIs ==
    /\ pc = "kpis"
    /\ total_revenue' = sum(df_clean, "Revenue")
    /\ total_units' = sum(df_clean, "Sales Volume")
    /\ avg_price' = mean(df_clean, "price")
    /\ unique_products' = nunique(df_clean, "Product ID")
    /\ pc' = "aggregate"
    /\ UNCHANGED <<file, df, df_clean, by_position, promo, by_season, by_material,
                   by_origin, top10, fig_season, fig_price_vs, fig_top10,
                   fig_material, fig_position, fig_promo, fig_origin,
                   path, page, nviews>>

\* lines 51-56
Aggregations ==
    /\ pc = "aggregate"
    /\ by_position' = g(df_clean, "Product Position")
    /\ promo' = g(df_clean, "Promotion")
    /\ by_season' = g(df_clean, "season")
    /\ by_material' = g(df_clean, "material")
    /\ by_origin' = g(df_clean, "origin")
    /\ top10' = top_products(df_clean)
    /\ pc' = "figures"
    /\ UNCHANGED <<file, df, df_clean, total_revenue, total_units, avg_price,
                   unique_products, fig_season, fig_price_vs, fig_top10,
                   fig_material, fig_position, fig_promo, fig_origin,
                   path, page, nviews>>

\* lines 75-81
Figures ==
    /\ pc = "figures"
    /\ fig_season' = make_bar(by_season, "season", "Sales Volume", "Sales by Season")
    /\ fig_price_vs' = make_scatter(df_clean)
    /\ fig_top10' = make_hbar(top10, "Sales Volume", "name",
                              "Top 10 Products by Sales Volume")
    /\ fig_material' = make_bar(by_material, "material", "Sales Volume",
                                "Sales by Material")
    /\ fig_position' = make_bar(by_position, "Product Position", "Sales Volume",
                                "Sales by Product Position")
    /\ fig_promo' = make_bar(promo, "Promotion", "Sales Volume",
                             "Sales: Promotion vs No Promotion")
    /\ fig_origin' = make_bar(by_origin, "origin", "Sales Volume",
                              "Sales by Region / Origin")
    /\ pc' = "serving"
    /\ UNCHANGED <<file, df, df_clean, total_revenue, total_units, avg_price,
                   unique_products, by_position, promo, by_season, by_material,
                   by_origin, top10, path, page, nviews>>

\* a variant of ChangePage whose page function truncates top10 in place
ChangePage_consuming(p) ==
    /\ pc = "serving"
    /\ nviews < MaxViews
    /\ path' = p
    /\ page' = change_page(p)
    /\ nviews' = nviews + 1
    /\ top10' = head(top10, 1)
    /\ UNCHANGED <<file, pc, df, df_clean, total_revenue, total_units, avg_price,
                   unique_products, by_position, promo, by_season, by_material,
                   by_origin, fig_season, fig_price_vs, fig_top10, fig_material,
                   fig_position, fig_promo, fig_origin>>

\* lines 205-214: one request for pathname p
ChangePage(p) ==
    /\ pc = "serving"
    /\ nviews < MaxViews
    /\ path' = p
    /\ page' = change_page(p)
    /\ nviews' = nviews + 1
    /\ UNCHANGED <<file, pc, data>>

Request == \E p \in Paths : ChangePage(p)

(***************************************************************************)
(* Specifications.                                                         *)
(***************************************************************************)
InitState(f) ==
    /\ file = f
    /\ pc = "load"
    /\ df = EmptyTable
    /\ df_clean = EmptyTable
    /\ total_revenue = Scalar(0, 1)
    /\ total_units = Scalar(0, 1)
    /\ avg_price = Scalar(0, 1)
    /\ unique_products = 0
    /\ by_position = EmptyTable
    /\ promo = EmptyTable
    /\ by_season = EmptyTable
    /\ by_material = EmptyTable
    /\ by_origin = EmptyTable
    /\ top10 = EmptyTable
    /\ fig_season = EmptyFigure
    /\ fig_price_vs = EmptyFigure
    /\ fig_top10 = EmptyFigure
    /\ fig_material = EmptyFigure
    /\ fig_position = EmptyFigure
    /\ fig_promo = EmptyFigure
    /\ fig_origin = EmptyFigure
    /\ path = NoRequest
    /\ page = NoPage
    /\ nviews = 0

Init == \E f \in Files(SUBSET VariedCols \ {{}}, MainCells) : InitState(f)

InitNumeric == \E f \in Files(SUBSET NumericCols \ {{}}, NumericCells) : InitState(f)

Next ==
    \/ Load
    \/ EnsureColumns
    \/ Coerce
    \/ FilterDerive
    \/ KPIs
    \/ Aggregations
    \/ Figures
    \/ Request

Spec == Init /\ [][Next]_vars

SpecNumeric == InitNumeric /\ [][Next]_vars

\* the script has passed the step named
Past(step) ==
    LET rank == [load |-> 0, ensure_cols |-> 1, coerce |-> 2, filter |-> 3, kpis |-> 4,
                 aggregate |-> 5, figures |-> 6, serving |-> 7, crashed |-> -1]
    IN  rank[pc] > rank[step]

(***************************************************************************)
(* Notions used to state the properties.                                   *)
(***************************************************************************)
RowIndexes(t) == 1..Len(t.rows)

\* the cell the source file holds for row i and column c (NaN: no such column)
SourceCell(i, c) ==
    IF c \in file.table.cols THEN file.table.rows[i][c] ELSE NaN

\* a text that writes an integer: an optional sign, then one or more digits
IsNumeral(chars) ==
    LET body == IF chars # <<>> /\ chars[1] = "-" THEN Tail(chars) ELSE chars
    IN  Len(body) > 0 /\ \A i \in 1..Len(body) : body[i] \in DigitChars

NonNumeric(cell) == cell.t = "nan" \/ (cell.t = "str" /\ ~IsNumeral(cell.s))

NonIncreasing(t) ==
    \A i \in 1..(Len(t.rows) - 1) :
        t.rows[i]["Sales Volume"].v >= t.rows[i + 1]["Sales Volume"].v

\* the key values a column holds in a table; a missing cell holds none
KeyValues(t, col) == {t.rows[i][col] : i \in RowIndexes(t)} \ {NaN}

\* the Sales Volume of the rows of t whose column col holds k
VolumeOf(t, col, k) ==
    SumCol(SelectSeq(t.rows, LAMBDA r : r[col] = k), "Sales Volume")

\* table `out` has exactly one row per key value of column col of t, with its volume
OneRowPerKey(out, t, col) ==
    /\ out.cols = {col, "Sales Volume"}
    /\ {out.rows[i][col] : i \in RowIndexes(out)} = KeyValues(t, col)
    /\ Len(out.rows) = Cardinality(KeyValues(t, col))
    /\ \A i \in RowIndexes(out) :
          out.rows[i]["Sales Volume"] = Num(VolumeOf(t, col, out.rows[i][col]))

TotalVolume(t) == SumCol(t.rows, "Sales Volume")

Aggregates ==
    << <<by_position, "Product Position">>, <<promo, "Promotion">>,
       <<by_season, "season">>, <<by_material, "material">>, <<by_origin, "origin">> >>

(***************************************************************************)
(* C1.  After normalization and filtering, every clean record is a         *)
(* normalized record (plus Revenue) with Sales Volume > 0, price > 0 and   *)
(* Revenue = Sales Volume * price >= 0, and no normalized record with      *)
(* Sales Volume > 0 and price > 0 is left out.                             *)
(***************************************************************************)
Thm_C1 ==
    Past("filter") =>
        /\ \A i \in RowIndexes(df_clean) :
              LET r == df_clean.rows[i]
              IN  /\ \E j \in RowIndexes(df) : \A c \in df.cols : r[c] = df.rows[j][c]
                  /\ r["Sales Volume"].t = "num" /\ r["Sales Volume"].v > 0
                  /\ r["price"].t = "num" /\ r["price"].v > 0
                  /\ r["Revenue"] = Num(r["Sales Volume"].v * r["price"].v)
                  /\ r["Revenue"].v >= 0
        /\ \A j \in RowIndexes(df) :
              (df.rows[j]["Sales Volume"].v > 0 /\ df.rows[j]["price"].v > 0)
                  => \E i \in RowIndexes(df_clean) :
                        \A c \in df.cols : df_clean.rows[i][c] = df.rows[j][c]
        /\ Len(df_clean.rows) =
              Cardinality({j \in RowIndexes(df) :
                  df.rows[j]["Sales Volume"].v > 0 /\ df.rows[j]["price"].v > 0})

\* a table of which one row (from numeric text) is kept and one row is filtered out
Wit_C1 ==
    /\ Past("filter")
    /\ Len(df.rows) = 2
    /\ Len(df_clean.rows) = 1
    /\ df_clean.rows[1]["Revenue"].v = 24
    /\ \E j \in RowIndexes(df) : df.rows[j]["price"].v < 0

(***************************************************************************)
(* C2.  With zero clean records the KPIs are total revenue 0, total units  *)
(* 0, average price 0 (a number, not NaN) and unique products 0, and the   *)
(* overview page displays these zero values.                               *)
(***************************************************************************)
CE_C2 ==
    (Past("kpis") /\ Len(df_clean.rows) = 0) =>
        /\ total_revenue = Scalar(0, 1)
        /\ total_units = Scalar(0, 1)
        /\ avg_price.t = "num" /\ avg_price.num = 0
        /\ unique_products = 0
        /\ (pc = "serving" /\ nviews > 0 /\ page.name = "overview") =>
              \A k \in 1..4 : page.kpis[k].value.t = "num" /\ page.kpis[k].value.num = 0

(***************************************************************************)
(* C3.  Loading never fails the process: for every state of the source     *)
(* file the loader returns a table, the empty table when the file is       *)
(* absent or cannot be parsed.                                             *)
(***************************************************************************)
CE_C3 ==
    /\ pc # "crashed"
    /\ (pc = "ensure_cols" /\ file.kind \in {"absent", "unparseable"}) => df = EmptyTable

(***************************************************************************)
(* C4.  Numeric coercion is total: after it every Sales Volume and price   *)
(* cell is a number, and a cell whose source value is non-numeric or       *)
(* missing (its column included) is exactly 0.                             *)
(***************************************************************************)
Thm_C4 ==
    Past("coerce") =>
        /\ Len(df.rows) = Len(file.table.rows)
        /\ \A i \in RowIndexes(df) : \A c \in {"Sales Volume", "price"} :
              /\ df.rows[i][c].t = "num"
              /\ NonNumeric(SourceCell(i, c)) => df.rows[i][c] = Num(0)

\* a row whose Sales Volume was non-numeric text and whose price was missing
Wit_C4 ==
    /\ Past("coerce")
    /\ \E i \in RowIndexes(df) :
          /\ SourceCell(i, "Sales Volume") = Str(<<"1", "x">>)
          /\ SourceCell(i, "price") = NaN
          /\ df.rows[i]["Sales Volume"] = Num(0)
          /\ df.rows[i]["price"] = Num(0)
    /\ \E i \in RowIndexes(df) : df.rows[i]["Sales Volume"] = Num(12)

(***************************************************************************)
(* C5.  After normalization every expected column is present and holds a   *)
(* non-absent value in every record, also when the source has the column   *)
(* with missing cells in some rows.                                        *)
(***************************************************************************)
CE_C5 ==
    Past("coerce") =>
        \A c \in expected_cols :
            /\ c \in df.cols
            /\ \A i \in RowIndexes(df) : df.rows[i][c] # NaN

(***************************************************************************)
(* C6.  g returns a table sorted non-increasing by summed Sales Volume     *)
(* with one row per distinct key value of the input, and the empty table   *)
(* when the input table is empty or the key column is absent.              *)
(***************************************************************************)
Thm_C6 ==
    /\ Past("aggregate") =>
          \A n \in 1..Len(Aggregates) :
              LET out == Aggregates[n][1]
                  col == Aggregates[n][2]
              IN  IF empty(df_clean) THEN out = EmptyTable
                  ELSE NonIncreasing(out) /\ OneRowPerKey(out, df_clean, col)
    /\ Past("filter") =>
          /\ g(df_clean, "no such column") = EmptyTable
          /\ \A c \in expected_cols : g(EmptyTable, c) = EmptyTable

\* two seasons whose sums put them in the opposite of their key order
Wit_C6 ==
    /\ Past("aggregate")
    /\ Len(by_season.rows) = 2
    /\ by_season.rows[1]["season"] = Str(<<"B">>)
    /\ by_season.rows[1]["Sales Volume"].v > by_season.rows[2]["Sales Volume"].v

(***************************************************************************)
(* C7.  change_page returns the details, advanced and insights views for   *)
(* exactly the paths /details, /advanced and /insights, the overview view  *)
(* for every other path (/, the empty string and None included), and       *)
(* never raises.                                                           *)
(***************************************************************************)
Thm_C7 ==
    (pc = "serving" /\ nviews > 0) =>
        /\ page.name # "raised"
        /\ page.name = "details" <=> path = "/details"
        /\ page.name = "advanced" <=> path = "/advanced"
        /\ page.name = "insights" <=> path = "/insights"
        /\ path \notin {"/details", "/advanced", "/insights"} => page.name = "overview"
        /\ page.name = "details" => page.charts = <<fig_top10, fig_material>>
        /\ page.name = "advanced" => page.charts = <<fig_season, fig_price_vs>>
        /\ page.name = "overview" => page.charts = <<fig_position, fig_promo, fig_origin>>

\* a second request, for an unrecognized path, answered with the overview
Wit_C7 ==
    /\ pc = "serving"
    /\ nviews = 2
    /\ path = "/details/"
    /\ page.name = "overview"
    /\ ~empty(df_clean)

(***************************************************************************)
(* C8.  After startup no page view changes the clean table, the KPIs, an   *)
(* aggregate table or a figure, and the view shown for a path is the one   *)
(* the unchanged data gives for it, whatever was viewed before.            *)
(***************************************************************************)
Thm_C8 ==
    /\ [][pc = "serving" => data' = data]_vars
    /\ []((pc = "serving" /\ nviews > 0) => page = change_page(path))

\* a second view, of the insights page, over data with a top season
Wit_C8 ==
    /\ pc = "serving"
    /\ nviews >= 2
    /\ path = "/insights"
    /\ Len(page.items) = 3
    /\ Len(top10.rows) = 2

(***************************************************************************)
(* C9.  top10 is the first min(10, number of groups) rows of the grouping  *)
(* by name in descending order of sum: with fewer than 10 groups it holds  *)
(* all of them, sorted, with no padding row, also for an empty clean       *)
(* table.                                                                  *)
(***************************************************************************)
Thm_C9 ==
    Past("aggregate") =>
        LET groups == Cardinality(KeyValues(df_clean, "name"))
        IN  /\ Len(top10.rows) = IF TopN < groups THEN TopN ELSE groups
            /\ NonIncreasing(top10)
            /\ \A i \in RowIndexes(top10) :
                  /\ top10.rows[i]["name"] \in KeyValues(df_clean, "name")
                  /\ top10.rows[i]["Sales Volume"] =
                        Num(VolumeOf(df_clean, "name", top10.rows[i]["name"]))
                  /\ \A j \in RowIndexes(top10) :
                        top10.rows[i]["name"] = top10.rows[j]["name"] => i = j
            /\ groups <= TopN => OneRowPerKey(top10, df_clean, "name")
            /\ empty(df_clean) => top10.rows = <<>>

\* two products, fewer than 10, the one with the larger sum first
Wit_C9 ==
    /\ Past("aggregate")
    /\ Len(top10.rows) = 2
    /\ top10.rows[1]["name"] = Str(<<"B">>)
    /\ top10.rows[1]["Sales Volume"].v > top10.rows[2]["Sales Volume"].v

(***************************************************************************)
(* C10.  Grouping conserves volume: for every key column the summed Sales  *)
(* Volume over the rows of the aggregate table equals the total-units KPI, *)
(* whatever key values the records hold.                                   *)
(***************************************************************************)
CE_C10 ==
    Past("aggregate") =>
        /\ \A n \in 1..Len(Aggregates) : TotalVolume(Aggregates[n][1]) = total_units.num
        /\ TotalVolume(groupby_sum(df_clean, "name")) = total_units.num

====
